---------------------------- MODULE Spec2Model ----------------------------
(***************************************************************************)
(* Model of src/lines.rs: the line index (NewlinePositions), the range     *)
(* splitter, relevant_lines, add_context and enforce_length.               *)
(*                                                                         *)
(* Buffers are sequences of bytes (numbers 0..255).  Offsets, columns and  *)
(* line numbers are zero-based as in the source; TLA+ sequences are        *)
(* one-based, so positions[k] of the source is positions[k + 1] here.      *)
(***************************************************************************)
EXTENDS Integers, Sequences, FiniteSets

VARIABLES
    s,                    \* the buffer a NewlinePositions was built from
    positions,            \* NewlinePositions.positions
    lookups,              \* from_offset calls made so far: {[offset, position]}
    ranges,               \* the slice the last from_ranges call was given
    rel_positions,        \* the value the last from_ranges call returned
    change,               \* relevant_lines: the change of the current iteration
    changes_done,         \* relevant_lines: number of changes taken from the slice
    line_relative_ranges, \* relevant_lines: ranges of the change still to visit
    line_nums_seen,       \* relevant_lines: the HashSet of lines already emitted
    rl_result,            \* relevant_lines: result
    rl_pc,                \* relevant_lines: "idle", "changes", "ranges" or "done"
    lines,                \* add_context: the slice of MatchedLine
    context,              \* add_context: context
    max_line,             \* add_context: max_line
    overflow_checks,      \* the build panics on integer overflow (debug) or wraps
    match_idx,            \* add_context: matched lines already processed
    opposite_offset,      \* add_context: opposite_offset of the current match
    i,                    \* add_context: the inner loop's variable
    range_end,            \* add_context: latest + 1, the inner range's end
    ac_result,            \* add_context: result
    origin,               \* add_context: for each entry of result, its match's index
    ac_pc,                \* add_context: "idle", "outer", "inner", "done", "panic"
    text,                 \* enforce_length: s
    line_length,          \* enforce_length: line_length
    el_lines,             \* enforce_length: lines s.lines() has still to yield
    el_result,            \* enforce_length: result
    el_pc,                \* enforce_length: "idle", "loop", "done" or "panic"
    pass,                 \* 1: the call on the text; 2: the call on its own output
    first_result          \* what the first call returned

indexVars == <<s, positions, lookups, ranges, rel_positions>>

relevantVars == <<change, changes_done, line_relative_ranges, line_nums_seen,
                  rl_result, rl_pc>>

contextVars == <<lines, context, max_line, overflow_checks, match_idx, opposite_offset,
                 i, range_end, ac_result, origin, ac_pc>>

formatVars == <<text, line_length, el_lines, el_result, el_pc, pass, first_result>>

vars == <<indexVars, relevantVars, contextVars, formatVars>>

-----------------------------------------------------------------------------
(* The newline byte. *)
NL == 10

(* Bounds of the model. *)
MaxBufLen == 4
MaxRanges == 1
MaxChanges == 2
MaxOpposite == 1

RECURSIVE SeqsUpTo(_, _)
SeqsUpTo(S, n) ==
    IF n = 0 THEN {<<>>}
    ELSE LET shorter == SeqsUpTo(S, n - 1)
         IN  shorter \cup {Append(q, x) : q \in {t \in shorter : Len(t) = n - 1}, x \in S}

(* The buffers: every text of the letter 'a' (byte 97) and newlines. *)
Buffers == SeqsUpTo({97, NL}, MaxBufLen)

-----------------------------------------------------------------------------
(* LineNumber::from *)
LineNumber_from(number) == [number |-> number]

(* Regex::new("\n").find_iter(s).map(|mat| mat.end()): the end offset of    *)
(* every newline, in ascending order.                                      *)
RECURSIVE find_iter_ends(_, _)
find_iter_ends(str, k) ==
    IF k > Len(str) THEN <<>>
    ELSE IF str[k] = NL THEN <<k>> \o find_iter_ends(str, k + 1)
    ELSE find_iter_ends(str, k + 1)

(* NewlinePositions::from *)
NewlinePositions_from(str) ==
    LET newlines == find_iter_ends(str, 1)
    IN  <<0>> \o newlines

(* The reverse scan of from_offset; line_num is the source's loop variable. *)
RECURSIVE from_offset_scan(_, _, _)
from_offset_scan(pos, offset, line_num) ==
    IF line_num < 0
    THEN [line |-> LineNumber_from(0), column |-> offset]
    ELSE IF offset >= pos[line_num + 1]
    THEN [line |-> LineNumber_from(line_num), column |-> offset - pos[line_num + 1]]
    ELSE from_offset_scan(pos, offset, line_num - 1)

(* Mutant: the comparison of the scan is strict, so a line-start offset     *)
(* falls on the previous line.                                             *)
RECURSIVE from_offset_scan_gt(_, _, _)
from_offset_scan_gt(pos, offset, line_num) ==
    IF line_num < 0
    THEN [line |-> LineNumber_from(0), column |-> offset]
    ELSE IF offset > pos[line_num + 1]
    THEN [line |-> LineNumber_from(line_num), column |-> offset - pos[line_num + 1]]
    ELSE from_offset_scan_gt(pos, offset, line_num - 1)

from_offset_gt(pos, offset) == from_offset_scan_gt(pos, offset, Len(pos) - 1)

(* Mutant: the scan runs forward and stops at the first line start that is  *)
(* at or after the offset.                                                 *)
RECURSIVE from_offset_scan_fwd(_, _, _)
from_offset_scan_fwd(pos, offset, line_num) ==
    IF line_num >= Len(pos)
    THEN [line |-> LineNumber_from(0), column |-> offset]
    ELSE IF offset <= pos[line_num + 1]
    THEN [line |-> LineNumber_from(line_num), column |-> pos[line_num + 1] - offset]
    ELSE from_offset_scan_fwd(pos, offset, line_num + 1)

from_offset_fwd(pos, offset) == from_offset_scan_fwd(pos, offset, 0)

(* NewlinePositions::from_offset *)
from_offset(pos, offset) == from_offset_scan(pos, offset, Len(pos) - 1)

(* The middle loop of split_line_boundaries: one full-line range for every  *)
(* line_num in from..(to - 1).                                             *)
RECURSIVE middle_ranges(_, _, _)
middle_ranges(pos, from, to) ==
    IF from >= to THEN <<>>
    ELSE LET line_end_pos == pos[from + 2] - 1
             length_of_line == line_end_pos - pos[from + 1]
         IN  <<[line |-> LineNumber_from(from), start |-> 0, end |-> length_of_line]>>
                 \o middle_ranges(pos, from + 1, to)

(* Mutant: the first line's length counts its newline. *)
split_line_boundaries_keep_newline(pos, start, end) ==
    IF start.line = end.line
    THEN <<[line |-> start.line, start |-> start.column, end |-> end.column]>>
    ELSE LET first_line_end_pos == pos[start.line.number + 2]
             first_line_length == first_line_end_pos - pos[start.line.number + 1]
         IN  <<[line |-> start.line, start |-> start.column, end |-> first_line_length]>>
                 \o middle_ranges(pos, start.line.number + 1, end.line.number)
                 \o <<[line |-> end.line, start |-> 0, end |-> end.column]>>

(* NewlinePositions::split_line_boundaries *)
split_line_boundaries(pos, start, end) ==
    IF start.line = end.line
    THEN <<[line |-> start.line, start |-> start.column, end |-> end.column]>>
    ELSE LET first_line_end_pos == pos[start.line.number + 2] - 1
             first_line_length == first_line_end_pos - pos[start.line.number + 1]
         IN  <<[line |-> start.line, start |-> start.column, end |-> first_line_length]>>
                 \o middle_ranges(pos, start.line.number + 1, end.line.number)
                 \o <<[line |-> end.line, start |-> 0, end |-> end.column]>>

(* NewlinePositions::from_ranges *)
RECURSIVE from_ranges(_, _)
from_ranges(pos, rs) ==
    IF rs = <<>> THEN <<>>
    ELSE LET range == Head(rs)
             start_pos == from_offset(pos, range.start)
             end_pos == from_offset(pos, range.end)
         IN  split_line_boundaries(pos, start_pos, end_pos) \o from_ranges(pos, Tail(rs))

(* AbsoluteRange values of a buffer: start <= end <= buffer length. *)
AbsoluteRanges(str) ==
    {[start |-> a, end |-> b] : a \in 0..Len(str), b \in 0..Len(str)} \ 
        {r \in [start : 0..Len(str), end : 0..Len(str)] : r.start > r.end}

-----------------------------------------------------------------------------
(* The line index: a NewlinePositions is built from a buffer, then queried. *)
InitIndex ==
    /\ s \in Buffers
    /\ positions = NewlinePositions_from(s)
    /\ lookups = {}
    /\ ranges = <<>>
    /\ rel_positions = <<>>

FromOffset ==
    \E offset \in 0..Len(s) :
        /\ lookups' = lookups \cup {[offset |-> offset, position |-> from_offset(positions, offset)]}
        /\ UNCHANGED <<s, positions, ranges, rel_positions>>
        /\ UNCHANGED <<relevantVars, contextVars, formatVars>>

(* A call of from_ranges; each call passes the previous slice and one more  *)
(* range.                                                                  *)
FromRanges ==
    /\ Len(ranges) < MaxRanges
    /\ \E range \in AbsoluteRanges(s) :
        /\ ranges' = Append(ranges, range)
        /\ rel_positions' = from_ranges(positions, Append(ranges, range))
    /\ UNCHANGED <<s, positions, lookups>>
    /\ UNCHANGED <<relevantVars, contextVars, formatVars>>

-----------------------------------------------------------------------------
(* relevant_lines(changes, s).  The slice of changes is consumed one change *)
(* per iteration of the outer loop; a Change is {range, opposite_line}.     *)
Changes(str) ==
    [range : AbsoluteRanges(str), opposite_line : {LineNumber_from(n) : n \in 0..MaxOpposite}]

(* The value of `change` before the first iteration. *)
NoChange == [range |-> [start |-> 0, end |-> 0], opposite_line |-> LineNumber_from(0)]

(* The state after `newlines`, `line_nums_seen` and `result` are set up. *)
InitRelevantVars ==
    /\ change = NoChange
    /\ changes_done = 0
    /\ line_relative_ranges = <<>>
    /\ line_nums_seen = {}
    /\ rl_result = <<>>
    /\ rl_pc = "changes"

(* for change in changes: the next change and its line-relative ranges. *)
RelevantNextChange ==
    /\ rl_pc = "changes"
    /\ changes_done < MaxChanges
    /\ \E c \in Changes(s) :
        /\ change' = c
        /\ line_relative_ranges' = from_ranges(positions, <<c.range>>)
    /\ changes_done' = changes_done + 1
    /\ rl_pc' = "ranges"
    /\ UNCHANGED <<line_nums_seen, rl_result>>
    /\ UNCHANGED <<indexVars, contextVars, formatVars>>

(* if line_nums_seen.contains(&range.line) { continue; } *)
RelevantSkipSeen ==
    /\ rl_pc = "ranges"
    /\ line_relative_ranges # <<>>
    /\ Head(line_relative_ranges).line \in line_nums_seen
    /\ line_relative_ranges' = Tail(line_relative_ranges)
    /\ UNCHANGED <<change, changes_done, line_nums_seen, rl_result, rl_pc>>
    /\ UNCHANGED <<indexVars, contextVars, formatVars>>

(* Mutant: the line is pushed without being recorded as seen. *)
RelevantPushNoInsert ==
    /\ rl_pc = "ranges"
    /\ line_relative_ranges # <<>>
    /\ Head(line_relative_ranges).line \notin line_nums_seen
    /\ rl_result' = Append(rl_result, [line |-> Head(line_relative_ranges).line,
                                       opposite_line |-> change.opposite_line])
    /\ line_relative_ranges' = Tail(line_relative_ranges)
    /\ UNCHANGED <<change, changes_done, line_nums_seen, rl_pc>>
    /\ UNCHANGED <<indexVars, contextVars, formatVars>>

(* line_nums_seen.insert(range.line); result.push(MatchedLine {..}) *)
RelevantPush ==
    /\ rl_pc = "ranges"
    /\ line_relative_ranges # <<>>
    /\ Head(line_relative_ranges).line \notin line_nums_seen
    /\ line_nums_seen' = line_nums_seen \cup {Head(line_relative_ranges).line}
    /\ rl_result' = Append(rl_result, [line |-> Head(line_relative_ranges).line,
                                       opposite_line |-> change.opposite_line])
    /\ line_relative_ranges' = Tail(line_relative_ranges)
    /\ UNCHANGED <<change, changes_done, rl_pc>>
    /\ UNCHANGED <<indexVars, contextVars, formatVars>>

(* The inner loop has visited every range of the change. *)
RelevantEndChange ==
    /\ rl_pc = "ranges"
    /\ line_relative_ranges = <<>>
    /\ rl_pc' = "changes"
    /\ UNCHANGED <<change, changes_done, line_relative_ranges, line_nums_seen, rl_result>>
    /\ UNCHANGED <<indexVars, contextVars, formatVars>>

(* The slice is exhausted: result is returned. *)
RelevantReturn ==
    /\ rl_pc = "changes"
    /\ rl_pc' = "done"
    /\ UNCHANGED <<change, changes_done, line_relative_ranges, line_nums_seen, rl_result>>
    /\ UNCHANGED <<indexVars, contextVars, formatVars>>

-----------------------------------------------------------------------------
(* Machine integers.  usize and isize have UsizeBits bits (64 in the        *)
(* build; scaled down here so that the largest values can be enumerated).   *)
UsizeBits == 5

RECURSIVE Pow2(_)
Pow2(n) == IF n = 0 THEN 1 ELSE 2 * Pow2(n - 1)

UsizeMax == Pow2(UsizeBits) - 1
IsizeMax == Pow2(UsizeBits - 1) - 1
IsizeMin == 0 - Pow2(UsizeBits - 1)

(* `n as isize` for a usize n: the same bits, read as two's complement. *)
AsIsize(n) == IF n > IsizeMax THEN n - Pow2(UsizeBits) ELSE n

(* `x as usize` for an isize x. *)
AsUsize(x) == x % Pow2(UsizeBits)

(* The value a wrapping isize operation leaves for the exact result x. *)
WrapIsize(x) == AsIsize(x % Pow2(UsizeBits))

(* The value a wrapping usize operation leaves for the exact result n. *)
WrapUsize(n) == n % Pow2(UsizeBits)

IsizeFits(x) == IsizeMin <= x /\ x <= IsizeMax
UsizeFits(n) == 0 <= n /\ n <= UsizeMax

(* std::cmp::max and std::cmp::min *)
max(a, b) == IF a >= b THEN a ELSE b
min(a, b) == IF a <= b THEN a ELSE b

-----------------------------------------------------------------------------
(* add_context(lines, context, max_line) *)
MaxMatches == 2
MaxLineNo == 3
MaxContext == 1

MatchedLines ==
    [line : {LineNumber_from(n) : n \in 0..MaxLineNo},
     opposite_line : {LineNumber_from(n) : n \in 0..MaxLineNo}]

(* The slices add_context is given: ascending in line. *)
AscendingLines ==
    {ls \in SeqsUpTo(MatchedLines, MaxMatches) :
        \A k \in 1..(Len(ls) - 1) : ls[k].line.number <= ls[k + 1].line.number}

(* context is any usize: small radii, and usize::MAX. *)
Contexts == 0..MaxContext \cup {UsizeMax}

(* The exact values of the arithmetic done for the matched line m. *)
exact_opposite_offset(m) == AsIsize(m.opposite_line.number) - AsIsize(m.line.number)
exact_earliest(m, ctx) == AsIsize(m.line.number) - AsIsize(ctx)
exact_latest(m, ctx) == m.line.number + ctx

(* earliest: max(0, line_number as isize - context as isize) as usize *)
earliest_of(m, ctx) == AsUsize(max(0, WrapIsize(exact_earliest(m, ctx))))

(* latest: min(line_number + context, max_line.number) *)
latest_of(m, ctx, maxl) == min(WrapUsize(exact_latest(m, ctx)), maxl.number)

(* Some operation of the window's computation overflows its type. *)
window_overflows(m, ctx, maxl) ==
    \/ ~IsizeFits(exact_opposite_offset(m))
    \/ ~IsizeFits(exact_earliest(m, ctx))
    \/ ~UsizeFits(exact_latest(m, ctx))
    \/ ~UsizeFits(latest_of(m, ctx, maxl) + 1)

(* Mutant: the context line gets its own number as opposite line. *)
context_opposite_line_same(line_no, offset) == line_no

(* max(i as isize + opposite_offset, 0) as usize *)
context_opposite_line(line_no, offset) ==
    AsUsize(max(WrapIsize(AsIsize(line_no) + offset), 0))

(* if let Some(last_line) = result.last() { if i <= last_line.line.number *)
(* { is_new = false; } }                                                  *)
is_new(res, line_no) ==
    ~(res # <<>> /\ line_no <= res[Len(res)].line.number)

(* The state after `let mut result = vec![]`. *)
InitContextVars ==
    /\ lines \in AscendingLines
    /\ context \in Contexts
    /\ max_line \in {LineNumber_from(n) : n \in 0..MaxLineNo}
    /\ overflow_checks \in BOOLEAN
    /\ match_idx = 0
    /\ opposite_offset = 0
    /\ i = 0
    /\ range_end = 0
    /\ ac_result = <<>>
    /\ origin = <<>>
    /\ ac_pc = "outer"

(* for matched_line in lines: opposite_offset, earliest and latest of the  *)
(* next matched line; the inner loop starts at earliest.                   *)
AddContextNextMatch ==
    /\ ac_pc = "outer"
    /\ match_idx < Len(lines)
    /\ LET matched_line == lines[match_idx + 1]
       IN  /\ ~(overflow_checks /\ window_overflows(matched_line, context, max_line))
           /\ opposite_offset' = WrapIsize(exact_opposite_offset(matched_line))
           /\ i' = earliest_of(matched_line, context)
           /\ range_end' = WrapUsize(latest_of(matched_line, context, max_line) + 1)
    /\ ac_pc' = "inner"
    /\ UNCHANGED <<lines, context, max_line, overflow_checks, match_idx, ac_result, origin>>
    /\ UNCHANGED <<indexVars, relevantVars, formatVars>>

(* An arithmetic operation overflows in a build that checks for it: the    *)
(* call panics.                                                            *)
AddContextOverflowPanic ==
    /\ overflow_checks
    /\ IF ac_pc = "outer"
       THEN /\ match_idx < Len(lines)
            /\ window_overflows(lines[match_idx + 1], context, max_line)
       ELSE /\ ac_pc = "inner"
            /\ i < range_end
            /\ is_new(ac_result, i)
            /\ ~IsizeFits(AsIsize(i) + opposite_offset)
    /\ ac_pc' = "panic"
    /\ UNCHANGED <<lines, context, max_line, overflow_checks, match_idx, opposite_offset,
                   i, range_end, ac_result, origin>>
    /\ UNCHANGED <<indexVars, relevantVars, formatVars>>

(* for i in earliest..latest + 1, is_new: the line is pushed. *)
AddContextPush ==
    /\ ac_pc = "inner"
    /\ i < range_end
    /\ is_new(ac_result, i)
    /\ ~(overflow_checks /\ ~IsizeFits(AsIsize(i) + opposite_offset))
    /\ ac_result' = Append(ac_result,
                           [line |-> LineNumber_from(i),
                            opposite_line |->
                                LineNumber_from(context_opposite_line(i, opposite_offset))])
    /\ origin' = Append(origin, match_idx + 1)
    /\ i' = i + 1
    /\ UNCHANGED <<lines, context, max_line, overflow_checks, match_idx, opposite_offset,
                   range_end, ac_pc>>
    /\ UNCHANGED <<indexVars, relevantVars, formatVars>>

(* for i in earliest..latest + 1, not is_new: nothing is pushed. *)
AddContextSkip ==
    /\ ac_pc = "inner"
    /\ i < range_end
    /\ ~is_new(ac_result, i)
    /\ i' = i + 1
    /\ UNCHANGED <<lines, context, max_line, overflow_checks, match_idx, opposite_offset,
                   range_end, ac_result, origin, ac_pc>>
    /\ UNCHANGED <<indexVars, relevantVars, formatVars>>

(* The inner range is exhausted. *)
AddContextEndWindow ==
    /\ ac_pc = "inner"
    /\ i >= range_end
    /\ match_idx' = match_idx + 1
    /\ ac_pc' = "outer"
    /\ UNCHANGED <<lines, context, max_line, overflow_checks, opposite_offset, i, range_end,
                   ac_result, origin>>
    /\ UNCHANGED <<indexVars, relevantVars, formatVars>>

(* The slice is exhausted: result is returned. *)
AddContextReturn ==
    /\ ac_pc = "outer"
    /\ match_idx = Len(lines)
    /\ ac_pc' = "done"
    /\ UNCHANGED <<lines, context, max_line, overflow_checks, match_idx, opposite_offset,
                   i, range_end, ac_result, origin>>
    /\ UNCHANGED <<indexVars, relevantVars, formatVars>>

-----------------------------------------------------------------------------
(* enforce_length(s, line_length).  A text is a str: valid UTF-8, here the  *)
(* one-byte characters 'a', '\r', '\n' and the two-byte character U+00E9    *)
(* (bytes 195, 169).                                                       *)
CR == 13
SP == 32

MaxTextLen == 4
MaxWidth == 2

Chars == {<<97>>, <<CR>>, <<NL>>, <<195, 169>>}

RECURSIVE TextsUpTo(_)
TextsUpTo(n) ==
    IF n = 0 THEN {<<>>}
    ELSE LET shorter == TextsUpTo(n - 1)
         IN  shorter \cup {t \o c : t \in shorter, c \in Chars}

Texts == {t \in TextsUpTo(MaxTextLen) : Len(t) <= MaxTextLen}

(* str::is_char_boundary(index): the start, the end, or a byte that is not  *)
(* a UTF-8 continuation byte (128..191).                                   *)
is_char_boundary(str, index) ==
    \/ index = 0
    \/ index = Len(str)
    \/ /\ index < Len(str)
       /\ ~(str[index + 1] >= 128 /\ str[index + 1] < 192)

(* str.chars().count(): the bytes that start a character. *)
chars_count(str) ==
    Cardinality({k \in 1..Len(str) : ~(str[k] >= 128 /\ str[k] < 192)})

(* One line as str::lines() yields it: a piece of split_inclusive('\n')     *)
(* without its "\n" and, when it had one, without a "\r" before it.        *)
strip_line_ending(piece) ==
    IF piece # <<>> /\ piece[Len(piece)] = NL
    THEN LET line == SubSeq(piece, 1, Len(piece) - 1)
         IN  IF line # <<>> /\ line[Len(line)] = CR
             THEN SubSeq(line, 1, Len(line) - 1)
             ELSE line
    ELSE piece

(* str::lines(): piece is the part of the current line read so far. *)
RECURSIVE lines_from(_, _, _)
lines_from(str, k, piece) ==
    IF k > Len(str)
    THEN IF piece = <<>> THEN <<>> ELSE <<strip_line_ending(piece)>>
    ELSE IF str[k] = NL
    THEN <<strip_line_ending(Append(piece, NL))>> \o lines_from(str, k + 1, <<>>)
    ELSE lines_from(str, k + 1, Append(piece, str[k]))

str_lines(str) == lines_from(str, 1, <<>>)

Spaces(n) == [k \in 1..n |-> SP]

(* format!("{:width$}\n", line, width = line_length): the line, spaces up   *)
(* to width characters, and a newline.                                     *)
format_padded(line, width) ==
    line \o Spaces(max(0, width - chars_count(line))) \o <<NL>>

(* The state after `let mut result = String::with_capacity(s.len())`, with  *)
(* the iterator s.lines() at its start.                                    *)
InitFormatVars ==
    /\ text \in Texts
    /\ line_length \in 0..MaxWidth
    /\ el_lines = str_lines(text)
    /\ el_result = <<>>
    /\ el_pc = "loop"
    /\ pass = 1
    /\ first_result = <<>>

(* line.len() > line_length: result gets &line[0..line_length] and "\n". *)
EnforceTruncate ==
    /\ el_pc = "loop"
    /\ el_lines # <<>>
    /\ Len(Head(el_lines)) > line_length
    /\ is_char_boundary(Head(el_lines), line_length)
    /\ el_result' = el_result \o SubSeq(Head(el_lines), 1, line_length) \o <<NL>>
    /\ el_lines' = Tail(el_lines)
    /\ UNCHANGED <<text, line_length, el_pc, pass, first_result>>
    /\ UNCHANGED <<indexVars, relevantVars, contextVars>>

(* line.len() > line_length and line_length is inside a character: the     *)
(* slice &line[0..line_length] panics.                                     *)
EnforceSlicePanic ==
    /\ el_pc = "loop"
    /\ el_lines # <<>>
    /\ Len(Head(el_lines)) > line_length
    /\ ~is_char_boundary(Head(el_lines), line_length)
    /\ el_pc' = "panic"
    /\ UNCHANGED <<text, line_length, el_lines, el_result, pass, first_result>>
    /\ UNCHANGED <<indexVars, relevantVars, contextVars>>

(* Otherwise: the line is padded with spaces. *)
EnforcePad ==
    /\ el_pc = "loop"
    /\ el_lines # <<>>
    /\ ~(Len(Head(el_lines)) > line_length)
    /\ el_result' = el_result \o format_padded(Head(el_lines), line_length)
    /\ el_lines' = Tail(el_lines)
    /\ UNCHANGED <<text, line_length, el_pc, pass, first_result>>
    /\ UNCHANGED <<indexVars, relevantVars, contextVars>>

(* s.lines() is exhausted: result is returned. *)
EnforceReturn ==
    /\ el_pc = "loop"
    /\ el_lines = <<>>
    /\ el_pc' = "done"
    /\ UNCHANGED <<text, line_length, el_lines, el_result, pass, first_result>>
    /\ UNCHANGED <<indexVars, relevantVars, contextVars>>

(* The caller runs enforce_length again, on the text the first call        *)
(* returned and with the same width.                                       *)
EnforceAgain ==
    /\ el_pc = "done"
    /\ pass = 1
    /\ first_result' = el_result
    /\ text' = el_result
    /\ el_lines' = str_lines(el_result)
    /\ el_result' = <<>>
    /\ el_pc' = "loop"
    /\ pass' = 2
    /\ UNCHANGED line_length
    /\ UNCHANGED <<indexVars, relevantVars, contextVars>>

-----------------------------------------------------------------------------
(* Components that are not running. *)
IdleIndex ==
    /\ s = <<>>
    /\ positions = <<0>>
    /\ lookups = {}
    /\ ranges = <<>>
    /\ rel_positions = <<>>

IdleRelevant ==
    /\ change = NoChange
    /\ changes_done = 0
    /\ line_relative_ranges = <<>>
    /\ line_nums_seen = {}
    /\ rl_result = <<>>
    /\ rl_pc = "idle"

IdleContext ==
    /\ lines = <<>>
    /\ context = 0
    /\ max_line = LineNumber_from(0)
    /\ overflow_checks = FALSE
    /\ match_idx = 0
    /\ opposite_offset = 0
    /\ i = 0
    /\ range_end = 0
    /\ ac_result = <<>>
    /\ origin = <<>>
    /\ ac_pc = "idle"

IdleFormat ==
    /\ text = <<>>
    /\ line_length = 0
    /\ el_lines = <<>>
    /\ el_result = <<>>
    /\ el_pc = "idle"
    /\ pass = 1
    /\ first_result = <<>>

(* The line index, queried by offset. *)
InitOffset == InitIndex /\ IdleRelevant /\ IdleContext /\ IdleFormat
NextOffset == FromOffset
SpecOffset == InitOffset /\ [][NextOffset]_vars

(* The line index, converting absolute ranges. *)
InitRanges == InitIndex /\ IdleRelevant /\ IdleContext /\ IdleFormat
NextRanges == FromRanges
SpecRanges == InitRanges /\ [][NextRanges]_vars

(* One call of relevant_lines. *)
InitRelevant == InitIndex /\ InitRelevantVars /\ IdleContext /\ IdleFormat
NextRelevant ==
    \/ RelevantNextChange
    \/ RelevantSkipSeen
    \/ RelevantPush
    \/ RelevantEndChange
    \/ RelevantReturn
SpecRelevant == InitRelevant /\ [][NextRelevant]_vars

(* One call of add_context. *)
InitContext == IdleIndex /\ IdleRelevant /\ InitContextVars /\ IdleFormat
NextContext ==
    \/ AddContextNextMatch
    \/ AddContextOverflowPanic
    \/ AddContextPush
    \/ AddContextSkip
    \/ AddContextEndWindow
    \/ AddContextReturn
SpecContext == InitContext /\ [][NextContext]_vars

(* One call of enforce_length, and a second call on what it returned. *)
InitFormat == IdleIndex /\ IdleRelevant /\ IdleContext /\ InitFormatVars
NextFormat ==
    \/ EnforceTruncate
    \/ EnforceSlicePanic
    \/ EnforcePad
    \/ EnforceReturn
    \/ EnforceAgain
SpecFormat == InitFormat /\ [][NextFormat]_vars

-----------------------------------------------------------------------------
(* The line table as the documentation states it, read off the buffer: 0    *)
(* and the offset just after every newline.                                *)
LineStarts(str) == {0} \cup {k \in 1..Len(str) : str[k] = NL}

SetMax(S) == CHOOSE x \in S : \A y \in S : y <= x

(* The line of an offset: the greatest index i with positions[i] <= o. *)
LineOf(str, o) == Cardinality({p \in LineStarts(str) : p <= o}) - 1

(* The start offset of line l: the (l+1)-th smallest line start. *)
StartOfLine(str, l) ==
    CHOOSE p \in LineStarts(str) : Cardinality({q \in LineStarts(str) : q < p}) = l

ColumnOf(str, o) == o - SetMax({p \in LineStarts(str) : p <= o})

(* L(l): the length of line l without its newline. *)
LineLength(str, l) == StartOfLine(str, l + 1) - 1 - StartOfLine(str, l)

(* C1: every from_offset(o) with 0 <= o <= len(s) returns line i, the       *)
(* greatest index with positions[i] <= o, and column o - positions[i]; an   *)
(* offset that is a line start maps to that line, column 0.                *)
C1_FromOffsetGreatestIndex ==
    \A l \in lookups :
        /\ l.position = [line |-> [number |-> LineOf(s, l.offset)],
                         column |-> ColumnOf(s, l.offset)]
        /\ l.offset \in LineStarts(s) => l.position.column = 0

(* A lookup at the start of a line after the first. *)
C1_Witness ==
    \E l \in lookups :
        /\ l.offset > 0
        /\ l.offset \in LineStarts(s)
        /\ l.position.line.number >= 1
        /\ l.position.column = 0

(* C2: the lookup is monotonic: o1 <= o2 implies line(o1) <= line(o2). *)
C2_FromOffsetMonotonic ==
    \A l1, l2 \in lookups :
        l1.offset <= l2.offset => l1.position.line.number <= l2.position.line.number

(* Two lookups on different lines of a buffer with a line in between. *)
C2_Witness ==
    \E l1, l2 \in lookups :
        /\ l1.offset < l2.offset
        /\ l1.position.line.number + 1 < l2.position.line.number

(* The ranges the documentation gives for one absolute range [a, b). *)
ExpectedRanges(str, r) ==
    LET la == LineOf(str, r.start)
        lb == LineOf(str, r.end)
    IN  [k \in 1..(lb - la + 1) |->
            LET l == la + k - 1
            IN  [line |-> [number |-> l],
                 start |-> IF l = la THEN ColumnOf(str, r.start) ELSE 0,
                 end |-> IF l = lb THEN ColumnOf(str, r.end) ELSE LineLength(str, l)]]

RECURSIVE ExpectedAll(_, _)
ExpectedAll(str, rs) ==
    IF rs = <<>> THEN <<>> ELSE ExpectedRanges(str, Head(rs)) \o ExpectedAll(str, Tail(rs))

(* C3: from_ranges emits, for a range [a, b) with a <= b <= len(s), one     *)
(* LineRange per line from line(a) to line(b) in ascending order: the      *)
(* single range {line(a), column(a), column(b)} on one line, otherwise     *)
(* {line(a), column(a), L(line(a))}, {l, 0, L(l)} for the lines between    *)
(* and {line(b), 0, column(b)}.                                            *)
C3_FromRangesOnePerLine == rel_positions = ExpectedAll(s, ranges)

(* A range that spans at least three lines has been split. *)
C3_Witness ==
    /\ Len(ranges) >= 1
    /\ Len(rel_positions) >= 3
    /\ rel_positions[1].start > 0
    /\ rel_positions[Len(rel_positions)].end > 0

(* C4: the result of relevant_lines never holds two MatchedLines with the  *)
(* same line, whatever the order and overlap of the changes.               *)
C4_RelevantLinesUnique ==
    \A j, k \in 1..Len(rl_result) :
        rl_result[j].line = rl_result[k].line => j = k

(* A returned result after a second change revisited a line already        *)
(* emitted (the changes overlap) and added a new one.                      *)
C4_Witness ==
    /\ rl_pc = "done"
    /\ changes_done = 2
    /\ Len(rl_result) >= 2
    /\ rl_result[1].line.number > rl_result[2].line.number
    /\ rl_result[1].opposite_line # rl_result[2].opposite_line

(* The slice is in strictly ascending line order. *)
StrictlyAscending(ls) ==
    \A k \in 1..(Len(ls) - 1) : ls[k].line.number < ls[k + 1].line.number

Window(m) ==
    {n \in 0..max_line.number :
        /\ n >= m.line.number - context
        /\ n <= m.line.number + context}

(* C6: the line numbers of the result are the strictly ascending,           *)
(* duplicate-free enumeration of the union of the windows of all matches.  *)
C6_ContextWindowUnion ==
    ac_pc = "done" =>
        /\ \A k \in 1..(Len(ac_result) - 1) :
               ac_result[k].line.number < ac_result[k + 1].line.number
        /\ {ac_result[k].line.number : k \in 1..Len(ac_result)}
               = UNION {Window(lines[k]) : k \in 1..Len(lines)}

(* C9: the call does not fail, and every entry emitted for line n while     *)
(* processing match m lies in m's window and has the opposite line         *)
(* max(0, n + (m.opposite_line - m.line)).                                 *)
C9_ClampedNeverFails ==
    /\ ac_pc # "panic"
    /\ \A k \in 1..Len(ac_result) :
           LET m == lines[origin[k]]
               e == ac_result[k]
           IN  /\ e.line.number \in Window(m)
               /\ e.opposite_line.number =
                      max(0, e.line.number + (m.opposite_line.number - m.line.number))

(* C10: every matched line of a strictly ascending slice that is within     *)
(* max_line is in the result with its own opposite line.  Stated for the   *)
(* context radii whose window arithmetic is exact (line + context fits an  *)
(* isize), so that a violation is one of alignment and not of overflow.    *)
C10_MatchedLinesKeepOpposite ==
    (/\ ac_pc = "done"
     /\ StrictlyAscending(lines)
     /\ \A k \in 1..Len(lines) : lines[k].line.number + context <= IsizeMax) =>
        \A k \in 1..Len(lines) :
            lines[k].line.number <= max_line.number =>
                /\ \E j \in 1..Len(ac_result) : ac_result[j].line = lines[k].line
                /\ \A j \in 1..Len(ac_result) :
                       ac_result[j].line = lines[k].line =>
                           ac_result[j].opposite_line = lines[k].opposite_line

(* The lines of a text: the pieces between newlines, as str_lines yields    *)
(* them.  A unit is a byte or a character.                                 *)
UnitCount(line, unit) == IF unit = "byte" THEN Len(line) ELSE chars_count(line)

(* The first n units of a line. *)
FirstUnits(line, n, unit) ==
    IF unit = "byte" THEN SubSeq(line, 1, n)
    ELSE LET ends == {k \in 0..Len(line) :
                         /\ is_char_boundary(line, k)
                         /\ chars_count(SubSeq(line, 1, k)) = n}
         IN  SubSeq(line, 1, CHOOSE k \in ends : TRUE)

(* The line the documentation gives for an input line: cut to its first     *)
(* width units if longer, otherwise right-padded to width units.           *)
FixedWidthLine(line, width, unit) ==
    IF UnitCount(line, unit) > width
    THEN FirstUnits(line, width, unit) \o <<NL>>
    ELSE line \o Spaces(width - UnitCount(line, unit)) \o <<NL>>

RECURSIVE FixedWidthText(_, _, _)
FixedWidthText(ls, width, unit) ==
    IF ls = <<>> THEN <<>>
    ELSE FixedWidthLine(Head(ls), width, unit) \o FixedWidthText(Tail(ls), width, unit)

(* C7: for every text and width the call returns, one line per input line   *)
(* in the same order, each exactly line_length units wide and followed by  *)
(* a newline: cut if longer, otherwise kept and right-padded.  The unit    *)
(* may be the byte or the character.                                       *)
C7_EveryLineExactWidth ==
    /\ el_pc # "panic"
    /\ (el_pc = "done" /\ pass = 1) =>
           \E unit \in {"byte", "char"} :
               el_result = FixedWidthText(str_lines(text), line_length, unit)

(* C8: enforce_length(enforce_length(s, w), w) = enforce_length(s, w):      *)
(* the call on the text a first call returned returns that same text.      *)
C8_EnforceLengthIdempotent ==
    /\ pass = 2 => el_pc # "panic"
    /\ (el_pc = "done" /\ pass = 2) => el_result = first_result

=============================================================================
